---- MODULE Spec2Model ----
(***************************************************************************)
(* Model of pyfred/script03_apiwrapgen.py: the generator that turns the    *)
(* command descriptors of the API store into python wrapper definitions.   *)
(*                                                                         *)
(* Text is modelled as a sequence of tokens (strings).  A parameter name   *)
(* is a token sequence over blocks of letters, " ", "(" and ")", so that   *)
(* the regular expression PARMAT can be applied to it.  Every              *)
(* fid.write(...) call is one record appended to fid; every print(...) is  *)
(* one record appended to stdout.                                          *)
(***************************************************************************)
EXTENDS Integers, Sequences, FiniteSets, TLC

VARIABLES
    cmdnames,   \* apidat.keys() in iteration order (line 128)
    apidat,     \* command name -> [cmdtype, descr, returns, sig] (line 108)
    docdat,     \* command name -> documentation entry (line 112)
    TIMENOW,    \* generation timestamp (line 38)
    pc,         \* "start", "loop", "done" or "failed" (uncaught KeyError)
    idx,        \* position of the for loop of line 132 in cmdnames
    fid,        \* the writes made to the output file, in order
    stdout,     \* the lines printed, in order
    retstr,     \* the local retstr of main(), which lives across iterations
    regenerated,\* whether the script has been run a second time
    prevnames,  \* the inputs and the output of the previous run
    prevapi,
    prevdoc,
    prevfid

vars == <<cmdnames, apidat, docdat, TIMENOW, pc, idx, fid, stdout, retstr,
          regenerated, prevnames, prevapi, prevdoc, prevfid>>

-----------------------------------------------------------------------------
(* Bounds and input domains *)

MaxCmds == 2
MaxSig == 2

Range(s) == {s[i] : i \in 1..Len(s)}

CmdNames == {"GetUnits", "SetUnits", "T_ENTITY"}
CmdTypes == {"function", "subroutine", "datastruct", "unknown"}
\* The clock reading of the first run, and those a later run can get.
FirstTime == "2017-03-01 10:00:00"
Times == {FirstTime, "2017-03-02 10:00:00"}
DocTexts == {"Description"}
Descrs == {"descr"}

\* Raw parameter names, each with a type of the VB vocabulary.
Params ==
    { << <<"a">>, "String" >>,
      << <<"a", "(", ")">>, "Long" >>,
      << <<"a", " ", "(", " ", ")">>, "Double" >>,
      << <<"self">>, "String" >>,
      << <<"self", "(", ")">>, "Long" >>,
      << <<"(", ")">>, "String" >> }

Sigs == UNION {[1..n -> Params] : n \in 0..MaxSig}
Returns == {<< >>, << <<"Units">>, "String" >>}

\* Descriptors of a store that holds one command.
RichDescs == [cmdtype : CmdTypes, descr : Descrs, returns : Returns, sig : Sigs]

\* Descriptors of a store that holds several commands.
ArraySig == << << <<"a", "(", ")">>, "Long" >> >>
SmallDescs ==
    {[cmdtype |-> "unknown", descr |-> "descr", returns |-> << >>, sig |-> << >>],
     [cmdtype |-> "function", descr |-> "descr",
      returns |-> << <<"Units">>, "String" >>, sig |-> << >>],
     [cmdtype |-> "subroutine", descr |-> "descr", returns |-> << >>, sig |-> << >>],
     [cmdtype |-> "subroutine", descr |-> "descr", returns |-> << >>, sig |-> ArraySig],
     [cmdtype |-> "datastruct", descr |-> "descr", returns |-> << >>, sig |-> ArraySig]}

Orders ==
    UNION {{s \in [1..n -> CmdNames] : \A i, j \in 1..n : s[i] = s[j] => i = j} :
              n \in 0..MaxCmds}

-----------------------------------------------------------------------------
(* Text helpers *)

I1 == "    "
I2 == "        "

RECURSIVE Join(_, _)
\* sep.join(list) on token sequences
Join(sep, list) ==
    IF Len(list) = 0 THEN << >>
    ELSE IF Len(list) = 1 THEN list[1]
    ELSE list[1] \o <<sep>> \o Join(sep, Tail(list))

\* utils.wrap_longlines: layout only; text that fits the column limit, as all
\* text of this model does, is returned as it is.
wrap_longlines(text) == text

\* utils.vb2pytype(t, rettype='repr'): the display name of the python type.
vb2pytype(t) ==
    CASE t = "String" -> "str"
      [] t = "Long" -> "int"
      [] t = "Double" -> "float"
      [] OTHER -> t

\* utils.fmt_docstr(doc, indent=I2)
fmt_docstr(doc) == <<I2, doc, "\n">>

upper(cmdtype) ==
    CASE cmdtype = "function" -> "FUNCTION"
      [] cmdtype = "subroutine" -> "SUBROUTINE"
      [] cmdtype = "datastruct" -> "DATASTRUCT"
      [] OTHER -> "UNKNOWN"

-----------------------------------------------------------------------------
(* PARMAT = re.compile('\s*\(\s*\)\s*') *)

RECURSIVE SkipWs(_, _)
\* \s* from position i: the first position that holds no whitespace
SkipWs(s, i) == IF i <= Len(s) /\ s[i] = " " THEN SkipWs(s, i + 1) ELSE i

\* The position after the match of PARMAT that starts at i, 0 if none starts there.
PARMAT_match(s, i) ==
    LET j == SkipWs(s, i) IN
    IF j <= Len(s) /\ s[j] = "("
    THEN LET k == SkipWs(s, j + 1) IN
         IF k <= Len(s) /\ s[k] = ")" THEN SkipWs(s, k + 1) ELSE 0
    ELSE 0

\* PARMAT.search(p) is not None
PARMAT_search(s) == \E i \in 1..Len(s) : PARMAT_match(s, i) # 0

RECURSIVE SubFrom(_, _)
SubFrom(s, i) ==
    IF i > Len(s) THEN << >>
    ELSE IF PARMAT_match(s, i) # 0 THEN SubFrom(s, PARMAT_match(s, i))
    ELSE <<s[i]>> \o SubFrom(s, i + 1)

\* PARMAT.sub('', p): every non-overlapping match removed, left to right
PARMAT_sub(s) == SubFrom(s, 1)

-----------------------------------------------------------------------------
(* The pieces of one wrapper, lines 138-264 *)

\* One fid.write(...) or print(...): which statement wrote it, and its text.
W(w, a, b) == [w |-> w, a |-> a, b |-> b]

RECURSIVE Flat(_)
Flat(ss) == IF Len(ss) = 0 THEN << >> ELSE ss[1] \o Flat(Tail(ss))

\* CLASTR, formatted with TIMENOW (lines 44-97)
CLASTR(t) == W("CLASTR", <<t>>, << >>)

\* descstr (lines 138-147)
descstr(cmdname, cmdtype, descr) ==
    <<"Wrapper for FRED ", cmdname, " ", upper(cmdtype), ".\n", I2>>
    \o (IF cmdtype = "datastruct"
        THEN <<"Does not require all parameters to be set when invoked.\n">>
        ELSE <<"Requires all parameters to be set when invoked.\n">>)
    \o <<"\n", I2>> \o wrap_longlines(<<descr>>)

\* params = [_[0] for _ in sigitems] (line 149)
params(sigitems) == [i \in 1..Len(sigitems) |-> sigitems[i][1]]

\* newparams after the loop of lines 153-160: keyed on the raw names
newparams(ps) ==
    [p \in Range(ps) |-> IF PARMAT_search(p) THEN PARMAT_sub(p) ELSE p]

\* annots after the loop of lines 152-160
annots(ps) ==
    [p \in Range(ps) |-> IF PARMAT_search(p) THEN "Array-like of " ELSE ""]

\* rethdg (lines 165-167)
rethdg == <<"\n", I2, "Returns\n", I2, "-------\n">>

\* Seeded fault: the heading is written for every function, as the comment of
\* line 171 has it, also when there is no returns entry.
funcret_always(rlist) ==
    rethdg
    \o (IF rlist # << >>
        THEN <<I2>> \o rlist[1] \o <<": ", vb2pytype(rlist[2]), "\n">>
        ELSE << >>)

\* the function branch of retstr (lines 170-175)
funcret(rlist) ==
    IF rlist # << >>
    THEN rethdg \o <<I2>> \o rlist[1] \o <<": ", vb2pytype(rlist[2]), "\n">>
    ELSE << >>

\* sigits (lines 184-189)
sigits(rlist, sigitems) ==
    (IF 0 < Len(rlist) THEN <<rlist>> ELSE << >>)
    \o (IF 0 < Len(sigitems) THEN sigitems ELSE << >>)

\* rstr (lines 193-196)
rstr(sg) == [i \in 1..Len(sg) |-> sg[i][1] \o <<": ", vb2pytype(sg[i][2])>>]

\* Seeded fault: the brackets are written from one returned value on.
multiple_fromone(sg) == Len(sg) >= 1

\* len(sigits) > 1 (lines 190 and 198)
multiple(sg) == Len(sg) > 1

\* the subroutine branch of retstr (lines 178-201)
subret(rlist, sigitems) ==
    IF 0 < Len(sigitems) \/ 0 < Len(rlist)
    THEN LET sg == sigits(rlist, sigitems) IN
         rethdg \o <<I2>>
         \o (IF multiple(sg) THEN <<"[">> ELSE << >>)
         \o Join(", ", rstr(sg))
         \o (IF multiple(sg) THEN <<"]">> ELSE << >>)
         \o <<"\n">>
    ELSE << >>

\* the datastruct branch of retstr (lines 202-205)
dsret(cmdname) == rethdg \o <<I2, "datastruct: <com_record ", cmdname, ">\n">>

\* Seeded fault: line 163 is missing, so retstr grows from one command to the next.
RetStr_kept(cmdname, d) ==
    retstr
    \o (CASE d.cmdtype = "function" -> funcret(d.returns)
          [] d.cmdtype = "subroutine" -> subret(d.returns, d.sig)
          [] d.cmdtype = "datastruct" -> dsret(cmdname)
          [] OTHER -> << >>)

\* retstr as line 234 writes it (lines 163-205)
RetStr(cmdname, d) ==
    CASE d.cmdtype = "function" -> funcret(d.returns)
      [] d.cmdtype = "subroutine" -> subret(d.returns, d.sig)
      [] d.cmdtype = "datastruct" -> dsret(cmdname)
      [] OTHER -> << >>

\* params.insert(0, "self") (line 207)
withself(ps) == << <<"self">> >> \o ps

\* newparams['self'] = "self" (line 208)
newparams_self(np) ==
    [p \in DOMAIN np \cup {<<"self">>} |-> IF p = <<"self">> THEN <<"self">> ELSE np[p]]

\* Seeded fault: the raw names are used instead of the normalized ones.
paramlist_raw(np, ps) == ps

\* paramlist = [newparams[_] for _ in params] (line 209)
paramlist(np, ps) == [i \in 1..Len(ps) |-> np[ps[i]]]

\* arglist (lines 212-217)
arglist(cmdtype, pl) ==
    [i \in 1..Len(pl) |->
        IF cmdtype = "datastruct" /\ pl[i] # <<"self">>
        THEN pl[i] \o <<"=None">>
        ELSE pl[i]]

\* the parameter section (lines 227-233)
parsection(sigitems, np, an) ==
    IF Len(sigitems) > 0
    THEN <<W("text", <<I2, "Parameters\n">>, << >>),
           W("text", <<I2, "----------\n">>, << >>)>>
         \o [i \in 1..Len(sigitems) |->
                W("par", np[sigitems[i][1]],
                  <<an[sigitems[i][1]], vb2pytype(sigitems[i][2])>>)]
    ELSE << >>

\* the field sets of a datastruct (lines 247-250)
fieldsets(pl) ==
    Flat([i \in 1..Len(pl) - 1 |->
            <<W("if", pl[i + 1], << >>), W("setattr", pl[i + 1], pl[i + 1])>>])

\* Seeded fault: the receiver is passed on to the stub as well.
paramstr_withself(pl) ==
    LET s == wrap_longlines(Join(", ", pl)) IN
    IF s = << >> THEN <<"None">> ELSE s

\* paramstr (lines 254-259)
paramstr(pl) ==
    LET s == wrap_longlines(Join(", ", Tail(pl))) IN
    IF s = << >> THEN <<"None">> ELSE s

\* stubpath = os.path.join(glovars.STUBDIR, cmdname + '.frs') (line 260)
stubpath(cmdname) == <<"STUBDIR", "/", cmdname, ".frs">>

\* the dispatch body (lines 242-264)
body(cmdname, cmdtype, pl) ==
    IF cmdtype = "datastruct"
    THEN <<W("record", <<cmdname>>, << >>)>>
         \o fieldsets(pl)
         \o <<W("text", <<I2, "return dstruct\n">>, << >>)>>
    ELSE <<W("lib", stubpath(cmdname), << >>),
           W("call", paramstr(pl), << >>)>>

\* Everything one iteration writes to fid (lines 206-264); rs is retstr.
wrapper(cmdname, d, doc, rs) ==
    LET sigitems == d.sig
        ps0 == params(sigitems)
        an == annots(ps0)
        np == newparams_self(newparams(ps0))
        pl == paramlist(np, withself(ps0))
    IN  <<W("sep", << >>, << >>),
          W("def", <<cmdname>>, wrap_longlines(Join(", ", arglist(d.cmdtype, pl)))),
          W("text", <<I2, "r\"\"\"\n">>, << >>),
          W("text", <<I2, "Python API documentation:\n">>, << >>),
          W("text", <<I2, "=========================\n">>, << >>),
          W("descstr", descstr(cmdname, d.cmdtype, d.descr), << >>),
          W("text", <<"\n">>, << >>)>>
        \o parsection(sigitems, np, an)
        \o <<W("retstr", rs, << >>),
             W("text", <<"\n">>, << >>),
             W("text", <<I2, "FRED documentation:\n">>, << >>),
             W("text", <<I2, "===================\n">>, << >>),
             W("docstr", fmt_docstr(doc), << >>),
             W("text", <<I2, "\"\"\"\n">>, << >>)>>
        \o body(cmdname, d.cmdtype, pl)

-----------------------------------------------------------------------------
(* The run *)

Init ==
    /\ cmdnames \in Orders
    /\ apidat \in [Range(cmdnames) ->
                      IF Len(cmdnames) = 1 THEN RichDescs ELSE SmallDescs]
    /\ docdat \in UNION {[S -> DocTexts] : S \in SUBSET Range(cmdnames)}
    /\ TIMENOW = FirstTime
    /\ pc = "start"
    /\ idx = 0
    /\ fid = << >>
    /\ stdout = << >>
    /\ retstr = << >>
    /\ regenerated = FALSE
    /\ prevnames = << >>
    /\ prevapi = << >>
    /\ prevdoc = << >>
    /\ prevfid = << >>

\* Lines 128-131: open the file, write the class header, print the banner.
Begin ==
    /\ fid' = <<CLASTR(TIMENOW')>>
    /\ stdout' = <<W("banner", << >>, << >>)>>
    /\ idx' = 1
    /\ pc' = "loop"
    /\ retstr' = << >>

Open ==
    /\ pc = "start"
    /\ UNCHANGED <<cmdnames, apidat, docdat, TIMENOW, regenerated,
                   prevnames, prevapi, prevdoc, prevfid>>
    /\ Begin

cmdname == cmdnames[idx]

Looping == pc = "loop" /\ idx <= Len(cmdnames)

\* Seeded fault: the separator of line 206 is written before the kind is tested.
Skip_separated ==
    /\ Looping
    /\ apidat[cmdname].cmdtype = "unknown"
    /\ stdout' = Append(stdout, W("skip", <<cmdname>>, << >>))
    /\ fid' = Append(fid, W("sep", << >>, << >>))
    /\ idx' = idx + 1
    /\ UNCHANGED <<cmdnames, apidat, docdat, TIMENOW, pc, retstr, regenerated,
                   prevnames, prevapi, prevdoc, prevfid>>

\* Lines 133-136: a command of unknown kind is reported and skipped.
Skip ==
    /\ Looping
    /\ apidat[cmdname].cmdtype = "unknown"
    /\ stdout' = Append(stdout, W("skip", <<cmdname>>, << >>))
    /\ idx' = idx + 1
    /\ UNCHANGED <<cmdnames, apidat, docdat, TIMENOW, pc, fid, retstr, regenerated,
                   prevnames, prevapi, prevdoc, prevfid>>

\* Lines 137-162 when docdat has no key cmdname: docdat[cmdname] raises KeyError,
\* nothing catches it and main() ends there.
KeyError ==
    /\ Looping
    /\ apidat[cmdname].cmdtype # "unknown"
    /\ cmdname \notin DOMAIN docdat
    /\ stdout' = Append(stdout, W("wrapping", <<cmdname>>, << >>))
    /\ pc' = "failed"
    /\ UNCHANGED <<cmdnames, apidat, docdat, TIMENOW, idx, fid, retstr, regenerated,
                   prevnames, prevapi, prevdoc, prevfid>>

\* Lines 137-264: one wrapper is written.
Wrap ==
    /\ Looping
    /\ apidat[cmdname].cmdtype # "unknown"
    /\ cmdname \in DOMAIN docdat
    /\ stdout' = Append(stdout, W("wrapping", <<cmdname>>, << >>))
    /\ retstr' = RetStr(cmdname, apidat[cmdname])
    /\ fid' = fid \o wrapper(cmdname, apidat[cmdname], docdat[cmdname], retstr')
    /\ idx' = idx + 1
    /\ UNCHANGED <<cmdnames, apidat, docdat, TIMENOW, pc, regenerated,
                   prevnames, prevapi, prevdoc, prevfid>>

\* Line 265: the loop is over and the file is closed.
Close ==
    /\ pc = "loop"
    /\ idx > Len(cmdnames)
    /\ pc' = "done"
    /\ UNCHANGED <<cmdnames, apidat, docdat, TIMENOW, idx, fid, stdout, retstr,
                   regenerated, prevnames, prevapi, prevdoc, prevfid>>

Ended == pc \in {"done", "failed"}

KeepPrevious ==
    /\ regenerated' = TRUE
    /\ prevnames' = cmdnames
    /\ prevapi' = apidat
    /\ prevdoc' = docdat
    /\ prevfid' = fid

\* The script is run again over the same stores: TIMENOW is read again.
Regenerate ==
    /\ Ended
    /\ ~regenerated
    /\ KeepPrevious
    /\ TIMENOW' \in Times
    /\ Begin
    /\ UNCHANGED <<cmdnames, apidat, docdat>>

RemoveAt(s, i) == SubSeq(s, 1, i - 1) \o SubSeq(s, i + 1, Len(s))

\* The script is run again after one command was taken out of both stores.
RegenerateEdited ==
    /\ Ended
    /\ ~regenerated
    /\ KeepPrevious
    /\ TIMENOW' \in Times
    /\ \E i \in 1..Len(cmdnames) :
          /\ cmdnames' = RemoveAt(cmdnames, i)
          /\ apidat' = [n \in DOMAIN apidat \ {cmdnames[i]} |-> apidat[n]]
          /\ docdat' = [n \in DOMAIN docdat \ {cmdnames[i]} |-> docdat[n]]
    /\ Begin

Next ==
    \/ Open
    \/ Skip
    \/ KeyError
    \/ Wrap
    \/ Close
    \/ Regenerate
    \/ RegenerateEdited

Spec == Init /\ [][Next]_vars

-----------------------------------------------------------------------------
(* Reading the output back *)

\* The positions of the def lines of f.
Defs(f) == {i \in 1..Len(f) : f[i].w = "def"}

RECURSIVE WrapperEnd(_, _)
\* The last write of the wrapper whose def line is f[i].
WrapperEnd(f, i) ==
    IF i + 1 <= Len(f) /\ f[i + 1].w # "sep" THEN WrapperEnd(f, i + 1) ELSE i

\* The writes of one kind of the wrapper whose def line is f[i], in order.
Recs(f, i, kind) ==
    SelectSeq(SubSeq(f, i, WrapperEnd(f, i)), LAMBDA r : r.w = kind)

\* The wrapper whose def line is f[i], from its separator on.
WrapperAt(f, i) == SubSeq(f, i - 1, WrapperEnd(f, i))

CmdAt(f, i) == f[i].a[1]

RECURSIVE Split(_, _)
\* text.split(sep) on token sequences
Split(sep, text) ==
    IF \A k \in 1..Len(text) : text[k] # sep THEN <<text>>
    ELSE LET k == CHOOSE k \in 1..Len(text) :
                     text[k] = sep /\ \A m \in 1..(k - 1) : text[m] # sep
         IN <<SubSeq(text, 1, k - 1)>> \o Split(sep, SubSeq(text, k + 1, Len(text)))

\* The entries of the header of the wrapper at i, and their names.
HeaderEntries(f, i) == Split(", ", f[i].b)
NoDefault(entry) == SelectSeq(entry, LAMBDA t : t # "=None")
HeaderNames(f, i) == [k \in 1..Len(HeaderEntries(f, i)) |-> NoDefault(HeaderEntries(f, i)[k])]
HasDefault(entry) == Len(entry) > 0 /\ entry[Len(entry)] = "=None"

\* The raw name with the empty-parenthesis segments removed.
Normalized(raw) == IF PARMAT_search(raw) THEN PARMAT_sub(raw) ELSE raw

Recognized(d) == d.cmdtype # "unknown"

\* A 'name: type' pair of a return section.
Pair(p) == p[1] \o <<": ", vb2pytype(p[2])>>
RetHeading == <<"\n", I2, "Returns\n", I2, "-------\n", I2>>

\* The return section of the wrapper at i.
RetSection(f, i) == Recs(f, i, "retstr")[1].a

-----------------------------------------------------------------------------
(* C1: the return section of a subroutine follows the count n of its explicit
   return entry (0 or 1) plus its signature parameters: none for n = 0, one
   unwrapped 'name: type' pair for n = 1, a bracketed list of n pairs, the
   explicit return first and then the parameters in order, for n >= 2. *)
ReturnedOf(d) ==
    (IF d.returns # << >> THEN <<d.returns>> ELSE << >>) \o d.sig

C1_SubroutineReturnSection ==
    \A i \in Defs(fid) :
        LET d == apidat[CmdAt(fid, i)]
            r == ReturnedOf(d)
            n == Len(r)
        IN  d.cmdtype = "subroutine" =>
              /\ Len(Recs(fid, i, "retstr")) = 1
              /\ n = 0 => RetSection(fid, i) = << >>
              /\ n = 1 => RetSection(fid, i) = RetHeading \o Pair(r[1]) \o <<"\n">>
              /\ n >= 2 =>
                    RetSection(fid, i) =
                        RetHeading \o <<"[">>
                        \o Join(", ", [k \in 1..n |-> Pair(r[k])])
                        \o <<"]", "\n">>

C1_Witness ==
    \E i \in Defs(fid) :
        LET d == apidat[CmdAt(fid, i)] IN
        /\ d.cmdtype = "subroutine"
        /\ d.returns # << >>
        /\ Len(d.sig) = 2
        /\ d.sig[1] # d.sig[2]
        /\ RetSection(fid, i)[7] = "["

(* C2: a function has a return section exactly when its returns entry is not
   empty, and the section then holds the one pair of that entry with its type
   translated, however many parameters the function has. *)
C2_FunctionReturnSection ==
    \A i \in Defs(fid) :
        LET d == apidat[CmdAt(fid, i)] IN
        d.cmdtype = "function" =>
          /\ Len(Recs(fid, i, "retstr")) = 1
          /\ (RetSection(fid, i) # << >>) <=> (d.returns # << >>)
          /\ d.returns # << >> =>
                /\ RetSection(fid, i) = RetHeading \o Pair(d.returns) \o <<"\n">>
                /\ Cardinality({k \in 1..Len(RetSection(fid, i)) :
                                   RetSection(fid, i)[k] = ": "}) = 1

C2_Witness ==
    \E i \in Defs(fid) :
        LET d == apidat[CmdAt(fid, i)] IN
        /\ d.cmdtype = "function"
        /\ d.returns # << >>
        /\ Len(d.sig) = 2
        /\ RetSection(fid, i) # << >>

(* C3: a command of recognized kind that has no entry in the documentation
   store does not make the generator fail: its wrapper is written with empty
   documentation text and the run goes on to its end. *)
Undocumented(c) == Recognized(apidat[c]) /\ c \notin DOMAIN docdat

C3_MissingDocTolerated ==
    /\ pc # "failed"
    /\ pc = "done" =>
          \A c \in Range(cmdnames) :
              Undocumented(c) =>
                  \E i \in Defs(fid) :
                      /\ CmdAt(fid, i) = c
                      /\ Recs(fid, i, "docstr")[1].a = << >>

(* C4: in the header of a datastruct every parameter but the receiver carries
   the default =None and the receiver carries none, and the body holds one
   conditional field set per such parameter, in signature order, guarded on
   and setting the normalized name; the header of a function or a subroutine
   carries no default. *)
C4_DatastructDefaults ==
    \A i \in Defs(fid) :
        LET d == apidat[CmdAt(fid, i)]
            e == HeaderEntries(fid, i)
            ifs == Recs(fid, i, "if")
            sets == Recs(fid, i, "setattr")
        IN  /\ d.cmdtype = "datastruct" =>
                /\ Len(e) = Len(d.sig) + 1
                /\ ~HasDefault(e[1])
                /\ \A k \in 2..Len(e) : HasDefault(e[k])
                /\ Len(ifs) = Len(d.sig)
                /\ Len(sets) = Len(d.sig)
                /\ \A k \in 1..Len(d.sig) :
                      /\ ifs[k].a = Normalized(d.sig[k][1])
                      /\ sets[k].a = Normalized(d.sig[k][1])
                      /\ sets[k].b = Normalized(d.sig[k][1])
            /\ d.cmdtype \in {"function", "subroutine"} =>
                \A k \in 1..Len(e) : ~HasDefault(e[k])

(* C5: for a command of unknown kind nothing is written to the output, one skip
   notice is printed, and the run goes on, so that every command of recognized
   kind still gets exactly one wrapper. *)
Mentions(rec, c) == \E k \in 1..Len(rec.a) : rec.a[k] = c

C5_UnknownSkipped ==
    Ended =>
        \A u \in Range(cmdnames) :
            ~Recognized(apidat[u]) =>
                /\ \A i \in 1..Len(fid) : ~Mentions(fid[i], u)
                /\ Cardinality({k \in 1..Len(stdout) :
                                   stdout[k] = W("skip", <<u>>, << >>)}) = 1
                /\ \A c \in Range(cmdnames) :
                      Recognized(apidat[c]) =>
                          Cardinality({i \in Defs(fid) : CmdAt(fid, i) = c}) = 1

(* C6: a parameter whose raw name matches the empty-parenthesis pattern is named
   by the raw name without the matched text in the header and in the field
   sets, and its parameter-section entry is annotated 'Array-like of '; any
   other name is used as it is, with an empty annotation; the header holds the
   receiver and then one entry per signature parameter, in order. *)
C6_ArrayLikeNormalized ==
    /\ PARMAT_sub(<<"a", "(", ")">>) = <<"a">>
    /\ PARMAT_sub(<<"a", " ", "(", " ", ")">>) = <<"a">>
    /\ ~PARMAT_search(<<"a">>)
    /\ \A i \in Defs(fid) :
        LET d == apidat[CmdAt(fid, i)]
            names == HeaderNames(fid, i)
            pars == Recs(fid, i, "par")
            sets == Recs(fid, i, "setattr")
        IN  /\ Len(names) = Len(d.sig) + 1
            /\ names[1] = <<"self">>
            /\ Len(pars) = Len(d.sig)
            /\ d.cmdtype = "datastruct" => Len(sets) = Len(d.sig)
            /\ \A k \in 1..Len(d.sig) :
                  LET raw == d.sig[k][1]
                      name == IF PARMAT_search(raw) THEN PARMAT_sub(raw) ELSE raw
                  IN  /\ PARMAT_search(raw) => Len(name) < Len(raw)
                      /\ names[k + 1] = name
                      /\ pars[k].a = name
                      /\ pars[k].b[1] = (IF PARMAT_search(raw) THEN "Array-like of " ELSE "")
                      /\ d.cmdtype = "datastruct" =>
                            sets[k].a = name /\ sets[k].b = name

C6_Witness ==
    \E i \in Defs(fid) :
        LET d == apidat[CmdAt(fid, i)] IN
        /\ d.cmdtype = "datastruct"
        /\ Len(d.sig) = 2
        /\ d.sig[1][1] = <<"a", " ", "(", " ", ")">>
        /\ d.sig[2][1] = <<"self">>
        /\ HeaderNames(fid, i) = << <<"self">>, <<"a">>, <<"self">> >>

(* C7: the body of a function or a subroutine calls the stub whose path is built
   from the command name with the normalized signature parameters, in order and
   without the receiver; when there is nothing to pass it passes None, so the
   argument text is never empty; the result of the call is what it returns. *)
C7_StubCall ==
    \A i \in Defs(fid) :
        LET c == CmdAt(fid, i)
            d == apidat[c]
            passed == Join(", ", [k \in 1..Len(d.sig) |-> Normalized(d.sig[k][1])])
            libs == Recs(fid, i, "lib")
            calls == Recs(fid, i, "call")
        IN  d.cmdtype \in {"function", "subroutine"} =>
              /\ Len(libs) = 1
              /\ libs[1].a = <<"STUBDIR", "/", c, ".frs">>
              /\ Len(calls) = 1
              /\ fid[WrapperEnd(fid, i)] = calls[1]
              /\ calls[1].a # << >>
              /\ Len(d.sig) = 0 => calls[1].a = <<"None">>
              /\ passed # << >> => calls[1].a = passed

C7_Witness ==
    /\ \E i \in Defs(fid) :
          /\ apidat[CmdAt(fid, i)].cmdtype = "function"
          /\ Len(apidat[CmdAt(fid, i)].sig) = 0
          /\ Recs(fid, i, "call")[1].a = <<"None">>
    /\ \E i \in Defs(fid) :
          /\ apidat[CmdAt(fid, i)].cmdtype = "subroutine"
          /\ Len(apidat[CmdAt(fid, i)].sig) = 1
          /\ Recs(fid, i, "call")[1].a = <<"a">>

(* C8: when a run has completed, the output is the class header, written once
   and first, and then one wrapper per command of recognized kind, each right
   after one separator, so that separators, def lines and recognized commands
   are equal in number; and one line was printed for each command. *)
RecognizedNames == SelectSeq(cmdnames, LAMBDA c : Recognized(apidat[c]))
Count(f, kind) == Cardinality({i \in 1..Len(f) : f[i].w = kind})
DefOrder == SelectSeq(fid, LAMBDA r : r.w = "def")

C8_OutputShape ==
    pc = "done" =>
        /\ Len(fid) >= 1
        /\ fid[1] = CLASTR(TIMENOW)
        /\ Count(fid, "CLASTR") = 1
        /\ [k \in 1..Len(DefOrder) |-> DefOrder[k].a[1]] = RecognizedNames
        /\ \A i \in Defs(fid) : i > 1 /\ fid[i - 1].w = "sep"
        /\ \A i \in 1..Len(fid) : fid[i].w = "sep" => i < Len(fid) /\ fid[i + 1].w = "def"
        /\ Count(fid, "sep") = Len(RecognizedNames)
        /\ Count(fid, "def") = Len(RecognizedNames)
        /\ \A c \in Range(cmdnames) :
              Cardinality({k \in 1..Len(stdout) : Mentions(stdout[k], c)}) = 1
        /\ \A k \in 1..Len(stdout) :
              stdout[k].w \in {"skip", "wrapping"} =>
                  /\ stdout[k].a[1] \in Range(cmdnames)
                  /\ (stdout[k].w = "skip") <=> ~Recognized(apidat[stdout[k].a[1]])

C8_Witness ==
    /\ pc = "done"
    /\ Len(cmdnames) = 2
    /\ ~Recognized(apidat[cmdnames[1]])
    /\ Recognized(apidat[cmdnames[2]])
    /\ Count(fid, "def") = 1
    /\ Len(stdout) = 3

(* C9: generating again from unchanged inputs gives the same output but for the
   timestamp of the header, and the wrapper written for a command is the same
   whatever other commands the store holds and whatever was written before it. *)
SameInputs == cmdnames = prevnames /\ apidat = prevapi /\ docdat = prevdoc

C9_Deterministic ==
    regenerated =>
        /\ (Ended /\ SameInputs) =>
              /\ Len(fid) = Len(prevfid)
              /\ fid[1].w = "CLASTR" /\ prevfid[1].w = "CLASTR"
              /\ Tail(fid) = Tail(prevfid)
        /\ \A i \in Defs(fid) : \A j \in Defs(prevfid) :
              LET c == CmdAt(fid, i) IN
              (/\ CmdAt(prevfid, j) = c
               /\ apidat[c] = prevapi[c]
               /\ docdat[c] = prevdoc[c])
              => WrapperAt(fid, i) = WrapperAt(prevfid, j)

C9_Witness ==
    /\ regenerated
    /\ pc = "done"
    /\ cmdnames # prevnames
    /\ TIMENOW # prevfid[1].a[1]
    /\ \E i \in Defs(fid) : \E j \in Defs(prevfid) :
          /\ CmdAt(fid, i) = CmdAt(prevfid, j)
          /\ i # j
          /\ Len(apidat[CmdAt(fid, i)].sig) > 0

(* C10: when the raw parameter names of a command are pairwise distinct and
   none is the receiver name, the names of the header, receiver included, are
   pairwise distinct. *)
C10_HeaderNamesDistinct ==
    \A i \in Defs(fid) :
        LET d == apidat[CmdAt(fid, i)]
            names == HeaderNames(fid, i)
        IN  (/\ \A k, m \in 1..Len(d.sig) : d.sig[k][1] = d.sig[m][1] => k = m
             /\ \A k \in 1..Len(d.sig) : d.sig[k][1] # <<"self">>)
            => \A k, m \in 1..Len(names) : names[k] = names[m] => k = m

====
